---- MODULE Spec2Model ----
(***************************************************************************)
(* scripts/import_registry.py of SongVote: main() looks at sys.argv and    *)
(* prints either a usage line or four lines of import guidance.            *)
(*                                                                         *)
(* Text is modelled by TLA+ strings, standard output by the string of all  *)
(* characters written so far, so that a "line" of output is what lies      *)
(* between two newline characters of that stream.  One process runs main() *)
(* once; several processes may be started one after the other on the same  *)
(* machine (same files, same environment).                                 *)
(***************************************************************************)
EXTENDS Integers, Sequences, FiniteSets

(* ---------------------------- bounds ---------------------------------- *)

\* most user-supplied arguments on a command line
MaxArgs == 2
\* most processes started one after the other
MaxRuns == 2

\* values a command-line argument takes: empty, with spaces inside and
\* around, with a line break inside
ArgValues == {"", " a b ", "a\nb"}

\* argv[0], the script path the interpreter was given
ProgNames == {"scripts/import_registry.py"}

\* files that may exist when a process starts
FileSets == {{}, {" a b "}}

RECURSIVE SeqsUpTo(_, _)
SeqsUpTo(S, n) ==
  IF n = 0 THEN {<<>>}
  ELSE LET shorter == SeqsUpTo(S, n - 1)
       IN  shorter \cup {Append(s, x) : s \in shorter, x \in S}

\* the argument lists a process can be started with
ArgLists == {<<p>> \o a : p \in ProgNames, a \in SeqsUpTo(ArgValues, MaxArgs)}

(* ---------------------------- state ----------------------------------- *)

VARIABLES
  argv,      \* sys.argv of the running process
  pc,        \* the source line about to be executed, or "exit" / "done"
  path,      \* the local variable of main(), NoPath while unbound
  stdout,    \* every character written to standard output by this process
  status,    \* "running", then "ok" (exit status 0) or the exception raised
  files,     \* paths that name an existing file
  opened,    \* paths this process has opened
  environ,   \* the process environment
  run,       \* number of processes started so far
  prev       \* argv, output and status of the process before this one

vars == <<argv, pc, path, stdout, status, files, opened, environ, run, prev>>

NoPath == <<"unbound">>
NoRun == [argv |-> <<>>, out |-> "", status |-> "none"]

(* ---------------------------- text ------------------------------------ *)

\* the string literals of main()
UsageText == "Usage: python scripts/import_registry.py /path/to/ect66_units.csv"
CsvLabel == "CSV path:"
RunText == "Run: psql <conn> -f db/staging_import.sql"
\* the copy command with the path filled in
CopyTextWithPath ==
  "Then: \\copy staging_units FROM '" \o path \o "' WITH (FORMAT csv, HEADER true);"
CopyText == "Then: \\copy staging_units FROM '...csv...' WITH (FORMAT csv, HEADER true);"
InsertText == "Then run the INSERT statements in staging_import.sql"

\* print()'s defaults: sep=' ', end='\n' (SepEmpty: a print with sep='')
SepEmpty == ""
Sep == " "
End == "\n"

RECURSIVE Join(_)
Join(objs) ==
  IF Len(objs) = 0 THEN ""
  ELSE IF Len(objs) = 1 THEN objs[1]
  ELSE objs[1] \o Sep \o Join(Tail(objs))

\* what print(*objs) writes to standard output
PrintedText(objs) == Join(objs) \o End

PyPrint(objs) == stdout' = stdout \o PrintedText(objs)

\* len(sys.argv)
ArgvLen == Len(argv)

\* sys.argv[-i]
ArgvAtFromEnd(i) == argv[Len(argv) - i + 1]

\* sys.argv[i], Python's index from 0
ArgvAt(i) == argv[i + 1]

(* ---------------------------- main() ---------------------------------- *)

Init ==
  /\ argv \in ArgLists
  /\ pc = "L6"
  /\ path = NoPath
  /\ stdout = ""
  /\ status = "running"
  /\ files \in FileSets
  /\ opened = {}
  /\ environ = [LANG |-> "C.UTF-8"]
  /\ run = 1
  /\ prev = NoRun

\* if len(sys.argv) < 1
MissingArgumentOffByOne == ArgvLen < 1

\* line 6: if len(sys.argv) < 2
MissingArgument == ArgvLen < 2

\* while len(sys.argv) < 2: wait for an argument
TestArgsSpin ==
  /\ pc = "L6"
  /\ pc' = IF MissingArgument THEN "L6" ELSE "L9"
  /\ UNCHANGED <<argv, path, stdout, status, files, opened, environ, run, prev>>

\* if len(sys.argv) <= 2
TestArgsOffByOne ==
  /\ pc = "L6"
  /\ pc' = IF ArgvLen <= 2 THEN "L7" ELSE "L9"
  /\ UNCHANGED <<argv, path, stdout, status, files, opened, environ, run, prev>>
TestArgs ==
  /\ pc = "L6"
  /\ pc' = IF MissingArgument THEN "L7" ELSE "L9"
  /\ UNCHANGED <<argv, path, stdout, status, files, opened, environ, run, prev>>

\* line 7: print("Usage: ...")
PrintUsage ==
  /\ pc = "L7"
  /\ PyPrint(<<UsageText>>)
  /\ pc' = "L8"
  /\ UNCHANGED <<argv, path, status, files, opened, environ, run, prev>>

\* line 8 without its return: control falls through to line 9
ReturnFallsThrough ==
  /\ pc = "L8"
  /\ pc' = "L9"
  /\ UNCHANGED <<argv, path, stdout, status, files, opened, environ, run, prev>>
\* line 8: return
Return ==
  /\ pc = "L8"
  /\ pc' = "exit"
  /\ UNCHANGED <<argv, path, stdout, status, files, opened, environ, run, prev>>

\* line 9 followed by open(path): the file is opened, and a missing file
\* raises FileNotFoundError
ReadPathOpens ==
  /\ pc = "L9"
  /\ IF 1 < ArgvLen /\ ArgvAt(1) \in files
       THEN /\ path' = ArgvAt(1)
            /\ opened' = opened \cup {ArgvAt(1)}
            /\ pc' = "L10"
            /\ status' = status
       ELSE /\ path' = path
            /\ opened' = opened
            /\ pc' = "done"
            /\ status' = IF 1 < ArgvLen THEN "FileNotFoundError" ELSE "IndexError"
  /\ UNCHANGED <<argv, stdout, files, environ, run, prev>>
\* line 9: path = sys.argv[1]; an index out of range raises IndexError,
\* which nothing catches: the process ends with that exception
ReadPath ==
  /\ pc = "L9"
  /\ IF 1 < ArgvLen
       THEN /\ path' = ArgvAt(1)
            /\ pc' = "L10"
            /\ status' = status
       ELSE /\ path' = path
            /\ pc' = "done"
            /\ status' = "IndexError"
  /\ UNCHANGED <<argv, stdout, files, opened, environ, run, prev>>

\* line 10 remembering the paths it has reported in a marker file, and
\* saying so when it reports one again
PrintCsvPathRemembered ==
  /\ pc = "L10"
  /\ PyPrint(IF path \in files THEN <<CsvLabel, path, "(seen)">>
                               ELSE <<CsvLabel, path>>)
  /\ files' = files \cup {path}
  /\ pc' = "L11"
  /\ UNCHANGED <<argv, path, status, opened, environ, run, prev>>
\* line 10: print("CSV path:", path)
PrintCsvPath ==
  /\ pc = "L10"
  /\ PyPrint(<<CsvLabel, path>>)
  /\ pc' = "L11"
  /\ UNCHANGED <<argv, path, status, files, opened, environ, run, prev>>

\* line 11 left out
PrintRunSkipped ==
  /\ pc = "L11"
  /\ pc' = "L12"
  /\ UNCHANGED <<argv, path, stdout, status, files, opened, environ, run, prev>>
\* line 11: print("Run: psql <conn> -f db/staging_import.sql")
PrintRun ==
  /\ pc = "L11"
  /\ PyPrint(<<RunText>>)
  /\ pc' = "L12"
  /\ UNCHANGED <<argv, path, status, files, opened, environ, run, prev>>

\* line 12: print("Then: \copy staging_units ...")
PrintCopy ==
  /\ pc = "L12"
  /\ PyPrint(<<CopyText>>)
  /\ pc' = "L13"
  /\ UNCHANGED <<argv, path, status, files, opened, environ, run, prev>>

\* line 13: print("Then run the INSERT statements ..."), the last statement
\* of main(), which then returns
PrintInsert ==
  /\ pc = "L13"
  /\ PyPrint(<<InsertText>>)
  /\ pc' = "exit"
  /\ UNCHANGED <<argv, path, status, files, opened, environ, run, prev>>

\* lines 15-16: main() has returned to the module, which ends: exit status 0
Exit ==
  /\ pc = "exit"
  /\ pc' = "done"
  /\ status' = "ok"
  /\ UNCHANGED <<argv, path, stdout, files, opened, environ, run, prev>>

\* lines 15-16 again: the script is started as a new process.  Nothing of
\* the old process is kept but what it left in the files and the environment.
Start ==
  /\ pc = "done"
  /\ run < MaxRuns
  /\ prev' = [argv |-> argv, out |-> stdout, status |-> status]
  /\ argv' \in ArgLists
  /\ pc' = "L6"
  /\ path' = NoPath
  /\ stdout' = ""
  /\ status' = "running"
  /\ opened' = {}
  /\ run' = run + 1
  /\ UNCHANGED <<files, environ>>

Step ==
  \/ TestArgs
  \/ PrintUsage
  \/ Return
  \/ ReadPath
  \/ PrintCsvPath
  \/ PrintRun
  \/ PrintCopy
  \/ PrintInsert
  \/ Exit

Next == Step \/ Start

Spec == Init /\ [][Next]_vars

\* a started process is scheduled until it has exited
FairSpec == Spec /\ WF_vars(Step)

(* ---------------------------- reading the output ---------------------- *)

HasNewline(s) == \E i \in 1..Len(s) : SubSeq(s, i, i) = "\n"

NewlineCount(s) == Cardinality({i \in 1..Len(s) : SubSeq(s, i, i) = "\n"})

FirstNewline(s) ==
  CHOOSE i \in 1..Len(s) :
    /\ SubSeq(s, i, i) = "\n"
    /\ \A j \in 1..(i - 1) : SubSeq(s, j, j) # "\n"

\* the lines of a text: what lies before each newline, and what follows the
\* last one when that is not empty
RECURSIVE Lines(_)
Lines(s) ==
  IF s = "" THEN <<>>
  ELSE IF ~HasNewline(s) THEN <<s>>
  ELSE LET i == FirstNewline(s)
       IN  <<SubSeq(s, 1, i - 1)>> \o Lines(SubSeq(s, i + 1, Len(s)))

StartsWith(s, p) == Len(p) <= Len(s) /\ SubSeq(s, 1, Len(p)) = p

Contains(s, sub) ==
  \E i \in 1..(Len(s) - Len(sub) + 1) : SubSeq(s, i, i + Len(sub) - 1) = sub

LastN(q, n) == SubSeq(q, Len(q) - n + 1, Len(q))

\* the echo line the specification asks for
CsvEcho(P) == "CSV path: " \o P

\* the three instructional lines, as text on standard output
Instructions == RunText \o "\n" \o CopyText \o "\n" \o InsertText \o "\n"

Done == pc = "done"
HasPathArg == ArgvLen >= 2
PrevDone == run > 1
PrevHasPathArg == Len(prev.argv) >= 2

(* ---------------------------- C1 -------------------------------------- *)

\* C1 as stated: run with exactly one user-supplied argument P, whatever
\* string P is, the first line of standard output is "CSV path: " + P.
C1_FirstLineIsEcho ==
  (Done /\ ArgvLen = 2) => Lines(stdout)[1] = CsvEcho(argv[2])

\* C1 as amended: run with exactly one user-supplied argument P, standard
\* output begins with "CSV path: " + P and a newline, P untrimmed and
\* unvalidated; so the first line is "CSV path: " + P whenever P holds no
\* line break, and "CSV path: " + (P up to its first line break) otherwise.
C1_EchoStartsOutput ==
  (Done /\ ArgvLen = 2) =>
    LET P == argv[2] IN
      /\ StartsWith(stdout, CsvEcho(P) \o "\n")
      /\ ~HasNewline(P) => Lines(stdout)[1] = CsvEcho(P)
      /\ HasNewline(P) =>
           Lines(stdout)[1] = CsvEcho(SubSeq(P, 1, FirstNewline(P) - 1))

C1_Witness ==
  /\ Done
  /\ ArgvLen = 2
  /\ argv[2] = " a b "
  /\ argv[2] \notin files
  /\ Lines(stdout)[1] = "CSV path:  a b "

(* ---------------------------- C2 -------------------------------------- *)

\* C2: run with no user-supplied argument, the output is the usage line and
\* nothing else; it holds "Usage:" and "scripts/import_registry.py"; the
\* echo line and the instructional lines are in no state of that run.
C2_UsageOnly ==
  ~HasPathArg =>
    /\ \A i \in 1..Len(Lines(stdout)) :
         /\ ~StartsWith(Lines(stdout)[i], CsvLabel)
         /\ Lines(stdout)[i] \notin {RunText, CopyText, InsertText}
    /\ Done =>
         /\ stdout = UsageText \o "\n"
         /\ Len(Lines(stdout)) = 1
         /\ Contains(Lines(stdout)[1], "Usage:")
         /\ Contains(Lines(stdout)[1], "scripts/import_registry.py")

C2_Witness ==
  /\ Done
  /\ ArgvLen = 1
  /\ Lines(stdout) = <<UsageText>>

(* ---------------------------- C3 -------------------------------------- *)

\* what a run with a path argument has written when it is about to execute
\* the statement at pc
GuidanceBefore(at) ==
  LET e == CsvEcho(argv[2]) \o "\n"
      r == RunText \o "\n"
      c == CopyText \o "\n"
      i == InsertText \o "\n"
  IN  CASE at \in {"L6", "L9", "L10"} -> ""
        [] at = "L11" -> e
        [] at = "L12" -> e \o r
        [] at = "L13" -> e \o r \o c
        [] at \in {"exit", "done"} -> e \o r \o c \o i

\* C3 as stated: with a path argument the output is exactly four lines: the
\* echo, the psql instruction, the copy command, the INSERT instruction.
C3_ExactlyFourLines ==
  (Done /\ HasPathArg) =>
    Lines(stdout) = <<CsvEcho(argv[2]), RunText, CopyText, InsertText>>

\* C3 as amended: with a path argument main() writes exactly four print
\* records in this order, none early, skipped or repeated: the echo of the
\* argument, the psql instruction, the copy command, the INSERT instruction,
\* each ended by a newline; these are exactly four lines of output when the
\* argument holds no line break.
C3_FourRecordsInOrder ==
  HasPathArg =>
    /\ stdout = GuidanceBefore(pc)
    /\ (Done /\ ~HasNewline(argv[2])) =>
         Lines(stdout) = <<CsvEcho(argv[2]), RunText, CopyText, InsertText>>

C3_Witness ==
  /\ Done
  /\ HasPathArg
  /\ Len(Lines(stdout)) = 4
  /\ Lines(stdout)[2] = "Run: psql <conn> -f db/staging_import.sql"
  /\ Contains(Lines(stdout)[3], "\\copy staging_units FROM")
  /\ Contains(Lines(stdout)[3], "HEADER true")
  /\ Contains(Lines(stdout)[4], "INSERT statements in staging_import.sql")

(* ---------------------------- C4 -------------------------------------- *)

\* the output of a run after its echo record
AfterEcho(out, P) == SubSeq(out, Len(CsvEcho(P)) + 2, Len(out))

BothDoneWithPath == Done /\ PrevDone /\ HasPathArg /\ PrevHasPathArg

\* C4 as stated: for any two path arguments, lines 2 to 4 of the two outputs
\* are the same.
C4_Lines2To4Constant ==
  BothDoneWithPath =>
    SubSeq(Lines(stdout), 2, 4) = SubSeq(Lines(prev.out), 2, 4)

\* C4 as amended: for any two path arguments P and Q, what follows the path
\* echo is the same three lines (the last three lines of the output, which
\* are lines 2 to 4 when the argument holds no line break); the whole output
\* depends only on whether an argument was supplied and, if so, on its value.
C4_InstructionsConstant ==
  /\ BothDoneWithPath =>
       /\ AfterEcho(stdout, argv[2]) = AfterEcho(prev.out, prev.argv[2])
       /\ LastN(Lines(stdout), 3) = LastN(Lines(prev.out), 3)
       /\ (~HasNewline(argv[2]) /\ ~HasNewline(prev.argv[2])) =>
            SubSeq(Lines(stdout), 2, 4) = SubSeq(Lines(prev.out), 2, 4)
       /\ argv[2] = prev.argv[2] => stdout = prev.out
  /\ (Done /\ PrevDone /\ ~HasPathArg /\ ~PrevHasPathArg) => stdout = prev.out

C4_Witness ==
  /\ BothDoneWithPath
  /\ argv[2] = ""
  /\ prev.argv[2] = " a b "
  /\ SubSeq(Lines(stdout), 2, 4) = <<RunText, CopyText, InsertText>>
  /\ SubSeq(Lines(prev.out), 2, 4) = <<RunText, CopyText, InsertText>>

(* ---------------------------- C5 -------------------------------------- *)

C6_SameArgsSameOutput ==
  (Done /\ PrevDone /\ prev.argv = argv) => stdout = prev.out

C6_Witness ==
  /\ Done
  /\ PrevDone
  /\ prev.argv = argv
  /\ ArgvLen = 3
  /\ stdout = prev.out
  /\ stdout # ""

(* ---------------------------- C7 -------------------------------------- *)

\* C7: no step of a run changes the files, the environment or the argument
\* list, and none opens a file, whether the path names a file or not.
C7_OnlyStdoutChanges ==
  [][~Done =>
       /\ argv' = argv
       /\ files' = files
       /\ environ' = environ
       /\ opened' = opened
       /\ opened' = {}]_vars

C7_Witness ==
  /\ Done
  /\ HasPathArg
  /\ argv[2] \in files
  /\ opened = {}
  /\ PrevDone
  /\ PrevHasPathArg
  /\ prev.argv[2] \notin files
  /\ stdout # ""

(* ---------------------------- C8 -------------------------------------- *)

\* the order of the statements of main()
Rank(at) ==
  CASE at = "L6" -> 1
    [] at = "L7" -> 2
    [] at = "L8" -> 3
    [] at = "L9" -> 4
    [] at = "L10" -> 5
    [] at = "L11" -> 6
    [] at = "L12" -> 7
    [] at = "L13" -> 8
    [] at = "exit" -> 9
    [] at = "done" -> 10

\* C8 as stated, its final part: a run that has ended has printed one line
\* (no argument) or four lines (argument present).
C8_OneOrFourLines ==
  Done => Len(Lines(stdout)) = IF HasPathArg THEN 4 ELSE 1

\* C8 as amended: every run ends, in a single pass (each step moves forward
\* in main(), none is taken twice), having written one print record (no
\* argument) or four (argument present): one line, or four lines and one
\* more for every line break in the argument.
C8_TerminatesInOnePass ==
  /\ (pc = "L6") ~> Done
  /\ [][~Done => Rank(pc') > Rank(pc)]_vars
  /\ [](Done =>
          Len(Lines(stdout)) =
            IF HasPathArg THEN 4 + NewlineCount(argv[2]) ELSE 1)

C8_Witness ==
  /\ Done
  /\ run = MaxRuns
  /\ HasPathArg
  /\ Len(Lines(stdout)) = 4
  /\ Len(Lines(prev.out)) = 1

(* ---------------------------- C9 -------------------------------------- *)

\* C9: given two or more user-supplied arguments, main() takes the first:
\* the usage branch is not taken, and the output and exit status are those
\* of a run given the first argument alone.
C9_OnlyFirstArgument ==
  ArgvLen > 2 =>
    /\ pc \notin {"L7", "L8"}
    /\ path \in {NoPath, argv[2]}
    /\ (Done /\ PrevDone /\ prev.argv = SubSeq(argv, 1, 2)) =>
         /\ stdout = prev.out
         /\ status = prev.status

C9_Witness ==
  /\ Done
  /\ PrevDone
  /\ ArgvLen = 3
  /\ argv[3] # argv[2]
  /\ prev.argv = SubSeq(argv, 1, 2)
  /\ stdout = prev.out
  /\ StartsWith(stdout, CsvLabel)

(* ---------------------------- C10 ------------------------------------- *)

UsagePrinted == StartsWith(stdout, UsageText \o "\n")
CsvPathPrinted == StartsWith(stdout, CsvLabel)

\* C10: a run prints the usage line exactly when the argument list has
\* fewer than two tokens, and the "CSV path:" line exactly when it has two
\* or more: never both, and a run that has ended has printed one of them.
C10_BranchesExclusive ==
  /\ UsagePrinted => ~HasPathArg
  /\ CsvPathPrinted => HasPathArg
  /\ ~(UsagePrinted /\ CsvPathPrinted)
  /\ Done =>
       /\ UsagePrinted <=> ~HasPathArg
       /\ CsvPathPrinted <=> HasPathArg
       /\ UsagePrinted \/ CsvPathPrinted

C10_Witness ==
  /\ Done
  /\ PrevDone
  /\ UsagePrinted
  /\ ~CsvPathPrinted
  /\ StartsWith(prev.out, CsvLabel)
  /\ ~StartsWith(prev.out, UsageText)

====
